---- MODULE Spec2Model ----
(***************************************************************************)
(* Server actions of the invoice dashboard: createInvoice, updateInvoice,  *)
(* deleteInvoice and authenticate, in the two revisions the repository     *)
(* holds:                                                                   *)
(*   src/unnamed/part_000     createInvoice(prevState, formData), ...      *)
(*   src/app/lib/actions.ts   createInvoice(formData), ...  (prefix lib_)  *)
(* An invocation runs up to its `await`, is suspended while the database   *)
(* (or the credential collaborator) works, and then runs to its end.  Each *)
(* of the two halves is one action; other invocations interleave between.  *)
(***************************************************************************)
EXTENDS Integers, Sequences, FiniteSets, TLC

VARIABLES
    invoices,   \* the rows of the invoices table
    idSeq,      \* last identifier the database handed out
    today,      \* the server's calendar day (new Date())
    inv         \* the invocations made so far, in the order they were called

vars == <<invoices, idSeq, today, inv>>

(***************************************************************************)
(* Bounds                                                                  *)
(***************************************************************************)
MaxCalls == 2       \* invocations in one behaviour, where they interleave
MaxSubmissions == 1 \* invocations in one behaviour, where every form is tried
MaxDay == 2         \* calendar days the clock runs through
FracDigits == 3     \* fractional digits a number carries (fixed point)

(***************************************************************************)
(* JavaScript values                                                       *)
(***************************************************************************)
Null == [t |-> "null"]                       \* formData.get of a missing field
Str(s) == [t |-> "string", s |-> s]          \* a text field; s: characters (amount) or a name
Undefined == [type |-> "undefined"]
StringValue(s) == [type |-> "string", s |-> s]
Object(props) == [type |-> "object", props |-> props]
Error(name, message) == [type |-> "error", name |-> name, message |-> message]

Return(v) == [kind |-> "return", value |-> v]
Throw(e) == [kind |-> "throw", value |-> e]
NoResult == [kind |-> "none"]

RECURSIVE Pow10(_)
Pow10(n) == IF n = 0 THEN 1 ELSE 10 * Pow10(n - 1)

\* A number is NaN or a fixed-point decimal: v counts units of 10^-FracDigits.
Scale == Pow10(FracDigits)
NaN == [nan |-> TRUE, v |-> 0]
Num(v) == [nan |-> FALSE, v |-> v]
IsInteger(n) == ~n.nan /\ n.v % Scale = 0
IntegerOf(n) == n.v \div Scale

Digit == {"0", "1", "2", "3", "4", "5", "6", "7", "8", "9"}
DigitVal(c) ==
    CASE c = "0" -> 0 [] c = "1" -> 1 [] c = "2" -> 2 [] c = "3" -> 3
      [] c = "4" -> 4 [] c = "5" -> 5 [] c = "6" -> 6 [] c = "7" -> 7
      [] c = "8" -> 8 [] c = "9" -> 9

IsDigits(s) == \A i \in 1..Len(s) : s[i] \in Digit

RECURSIVE DigitsVal(_)
DigitsVal(s) ==
    IF s = <<>> THEN 0
    ELSE DigitsVal(SubSeq(s, 1, Len(s) - 1)) * 10 + DigitVal(s[Len(s)])

\* Number(text): "" is 0; [+-]digits[.digits] is its decimal value; the rest NaN.
StringToNumber(s) ==
    LET signed == Len(s) > 0 /\ s[1] \in {"-", "+"}
        sign == IF Len(s) > 0 /\ s[1] = "-" THEN -1 ELSE 1
        body == IF signed THEN Tail(s) ELSE s
        dots == {i \in 1..Len(body) : body[i] = "."}
    IN  IF s = <<>> THEN Num(0)
        ELSE IF dots = {}
        THEN IF body # <<>> /\ IsDigits(body)
             THEN Num(sign * DigitsVal(body) * Scale)
             ELSE NaN
        ELSE IF Cardinality(dots) = 1
        THEN LET d == CHOOSE i \in dots : TRUE
                 whole == SubSeq(body, 1, d - 1)
                 frac == SubSeq(body, d + 1, Len(body))
             IN  IF /\ IsDigits(whole) /\ IsDigits(frac)
                    /\ Len(whole) + Len(frac) > 0
                    /\ Len(frac) <= FracDigits
                 THEN Num(sign * (DigitsVal(whole) * Scale
                                  + DigitsVal(frac) * Pow10(FracDigits - Len(frac))))
                 ELSE NaN
        ELSE NaN

\* z.coerce.number(): Number(input); Number(null) is 0.
CoerceNumber(raw) == IF raw = Null THEN Num(0) ELSE StringToNumber(raw.s)

\* amount * 10: a slip in the factor
Times100_factor10(n) == IF n.nan THEN NaN ELSE Num(n.v * 10)

\* amount * 100, on exact decimals: the rounding of IEEE doubles (1.15 * 100 is
\* 114.99999999999999) is not modelled; a product that is no whole number comes
\* from an amount with more than two fractional digits.
Times100(n) == IF n.nan THEN NaN ELSE Num(n.v * 100)

(***************************************************************************)
(* Validation (zod)                                                        *)
(***************************************************************************)
Fields == {"customerId", "amount", "status"}

\* customerId: z.string({invalid_type_error})
FormSchema_customerId(raw) ==
    IF raw = Null THEN <<"Please select a customer.">> ELSE <<>>

\* gte(0) in place of gt(0)
FormSchema_amount_gte(raw) ==
    LET n == CoerceNumber(raw)
    IN  IF n.nan THEN <<"Expected number, received nan">>
        ELSE IF ~(n.v >= 0) THEN <<"Please enter an amount greater than $0.">>
        ELSE <<>>

\* amount: z.coerce.number().gt(0, {message}); gt is not tried on NaN
FormSchema_amount(raw) ==
    LET n == CoerceNumber(raw)
    IN  IF n.nan THEN <<"Expected number, received nan">>
        ELSE IF ~(n.v > 0) THEN <<"Please enter an amount greater than $0.">>
        ELSE <<>>

\* z.string() in place of z.enum
FormSchema_status_anyString(raw) ==
    IF raw = Null THEN <<"Please select an invoice status.">> ELSE <<>>

\* status: z.enum(['pending', 'paid'], {invalid_type_error})
FormSchema_status(raw) ==
    IF raw = Null THEN <<"Please select an invoice status.">>
    ELSE IF raw.s \notin {"pending", "paid"}
    THEN <<"Invalid enum value. Expected 'pending' | 'paid'">>
    ELSE <<>>

\* The typed record a schema yields for an input without issues.
ParsedData(input) ==
    [customerId |-> input.customerId.s,
     amount |-> CoerceNumber(input.amount),
     status |-> input.status.s]

\* error.flatten().fieldErrors: the fields that have issues, with their messages
FieldErrors(issues) ==
    [f \in {g \in Fields : issues[g] # <<>>} |-> issues[f]]

SafeParseResult(input, issues) ==
    IF \A f \in Fields : issues[f] = <<>>
    THEN [success |-> TRUE, data |-> ParsedData(input)]
    ELSE [success |-> FALSE, fieldErrors |-> FieldErrors(issues)]

\* CreateInvoice = FormSchema.omit({id, date}), used through safeParse
CreateInvoice_safeParse(input) ==
    SafeParseResult(input,
        [customerId |-> FormSchema_customerId(input.customerId),
         amount |-> FormSchema_amount(input.amount),
         status |-> FormSchema_status(input.status)])

\* UpdateInvoice = FormSchema.omit({id, date}), used through parse
UpdateInvoice_safeParse(input) ==
    SafeParseResult(input,
        [customerId |-> FormSchema_customerId(input.customerId),
         amount |-> FormSchema_amount(input.amount),
         status |-> FormSchema_status(input.status)])

\* actions.ts: customerId: z.string()
lib_FormSchema_customerId(raw) ==
    IF raw = Null THEN <<"Expected string, received null">> ELSE <<>>

\* actions.ts: amount: z.coerce.number(), no lower limit
lib_FormSchema_amount(raw) ==
    IF CoerceNumber(raw).nan THEN <<"Expected number, received nan">> ELSE <<>>

\* actions.ts: status: z.enum(['pending', 'paid'])
lib_FormSchema_status(raw) ==
    IF raw = Null THEN <<"Expected 'pending' | 'paid', received null">>
    ELSE IF raw.s \notin {"pending", "paid"}
    THEN <<"Invalid enum value. Expected 'pending' | 'paid'">>
    ELSE <<>>

lib_CreateInvoice_safeParse(input) ==
    SafeParseResult(input,
        [customerId |-> lib_FormSchema_customerId(input.customerId),
         amount |-> lib_FormSchema_amount(input.amount),
         status |-> lib_FormSchema_status(input.status)])

lib_UpdateInvoice_safeParse(input) ==
    SafeParseResult(input,
        [customerId |-> lib_FormSchema_customerId(input.customerId),
         amount |-> lib_FormSchema_amount(input.amount),
         status |-> lib_FormSchema_status(input.status)])

ZodError == Error("ZodError", "validation failed")

(***************************************************************************)
(* The database: one statement at a time on the invoices table             *)
(***************************************************************************)
NoStmt == [op |-> "none"]

\* INSERT INTO invoices (customer_id, amount, status, date) VALUES (...)
InsertStmt(customerId, amountInCents, status, date) ==
    [op |-> "INSERT", customer_id |-> customerId, amount |-> amountInCents,
     status |-> status, date |-> date]

\* UPDATE invoices SET customer_id, amount, status WHERE id
UpdateStmt(customerId, amountInCents, status, id) ==
    [op |-> "UPDATE", customer_id |-> customerId, amount |-> amountInCents,
     status |-> status, id |-> id]

\* DELETE FROM invoices WHERE id
DeleteStmt(id) == [op |-> "DELETE", id |-> id]

INSERT(table, newId, stmt) ==
    table \cup {[id |-> newId, customer_id |-> stmt.customer_id,
                 amount |-> IntegerOf(stmt.amount), status |-> stmt.status,
                 date |-> stmt.date]}

\* the UPDATE without its WHERE clause
UPDATE_noWhere(table, stmt) ==
    {[r EXCEPT !.customer_id = stmt.customer_id,
               !.amount = IntegerOf(stmt.amount),
               !.status = stmt.status] : r \in table}

\* an upsert: the row is entered when no row has the identifier
UPDATE_upsert(table, stmt) ==
    {r \in table : r.id # stmt.id}
        \cup {[id |-> stmt.id, customer_id |-> stmt.customer_id,
               amount |-> IntegerOf(stmt.amount), status |-> stmt.status,
               date |-> 0]}

UPDATE(table, stmt) ==
    {IF r.id = stmt.id
     THEN [r EXCEPT !.customer_id = stmt.customer_id,
                    !.amount = IntegerOf(stmt.amount),
                    !.status = stmt.status]
     ELSE r : r \in table}

\* the DELETE without its WHERE clause
DELETE_noWhere(table, stmt) == {}

DELETE(table, stmt) == {r \in table : r.id # stmt.id}

Execute(table, newId, stmt) ==
    CASE stmt.op = "INSERT" -> INSERT(table, newId, stmt)
      [] stmt.op = "UPDATE" -> UPDATE(table, stmt)
      [] stmt.op = "DELETE" -> DELETE(table, stmt)

\* rows the statement affects
RowCount(table, stmt) ==
    IF stmt.op = "INSERT" THEN 1
    ELSE Cardinality({r \in table : r.id = stmt.id})

\* The amount column holds whole minor units: a fractional value is refused.
AmountColumnAccepts(stmt) ==
    stmt.op \in {"INSERT", "UPDATE"} => IsInteger(stmt.amount)

DatabaseError == Error("DatabaseError", "statement failed")

\* What the awaited statement settles with: any statement can fail (connection,
\* constraint); one the table refuses always fails.
SqlOutcomes(stmt) ==
    IF AmountColumnAccepts(stmt)
    THEN {Return(Undefined), Throw(DatabaseError)}
    ELSE {Throw(DatabaseError)}

(***************************************************************************)
(* Invocations                                                             *)
(***************************************************************************)
ListingPath == "/dashboard/invoices"
RevalidatePath(path) == [call |-> "revalidatePath", arg |-> path]
Redirect(path) == [call |-> "redirect", arg |-> path]
Sql(op) == [call |-> "sql", arg |-> op]
SignIn(provider) == [call |-> "signIn", arg |-> provider]
\* redirect() throws this signal
RedirectSignal(path) == Error("NEXT_REDIRECT", path)

NoForm == [customerId |-> Null, amount |-> Null, status |-> Null]

\* An invocation as it is called: nothing awaited, nothing done yet.
Call(fn, file, id, formData) ==
    [fn |-> fn, file |-> file, id |-> id, formData |-> formData,
     day |-> today, pc |-> "running", stmt |-> NoStmt, log |-> <<>>,
     awaited |-> NoResult, rowCount |-> -1, result |-> NoResult]

Finished(c, result) == [c EXCEPT !.pc = "done", !.result = result]
Awaiting(c, stmt) ==
    [c EXCEPT !.pc = "await", !.stmt = stmt, !.log = <<Sql(stmt.op)>>]

Pending(fn, file) ==
    {i \in 1..Len(inv) :
        inv[i].fn = fn /\ inv[i].file = file /\ inv[i].pc = "await"}

\* The awaited statement of invocation i settles with `outcome`; the rest of
\* the function (`tail`: the calls it makes and how it ends) runs.
Settle(i, outcome, tail) ==
    LET r == inv[i]
        ok == outcome.kind = "return"
    IN  /\ invoices' = IF ok THEN Execute(invoices, idSeq + 1, r.stmt) ELSE invoices
        /\ idSeq' = IF ok /\ r.stmt.op = "INSERT" THEN idSeq + 1 ELSE idSeq
        /\ inv' = [inv EXCEPT ![i] =
                    [r EXCEPT !.pc = "done",
                              !.awaited = outcome,
                              !.rowCount = IF ok THEN RowCount(invoices, r.stmt) ELSE -1,
                              !.log = r.log \o tail.log,
                              !.result = tail.result]]
        /\ UNCHANGED today

(***************************************************************************)
(* createInvoice                                                           *)
(***************************************************************************)
\* part_000: up to the await of the INSERT
createInvoice(prevState, formData) ==
    /\ LET c == Call("createInvoice", "part_000", 0, formData)
           validatedFields == CreateInvoice_safeParse(formData)
       IN  inv' = Append(inv,
                IF ~validatedFields.success
                THEN Finished(c, Return(Object(
                        [errors |-> validatedFields.fieldErrors,
                         message |-> "Missing Fields. Failed to Create Invoice."])))
                ELSE LET amountInCents == Times100(validatedFields.data.amount)
                         date == today
                     IN  Awaiting(c, InsertStmt(validatedFields.data.customerId,
                                                amountInCents,
                                                validatedFields.data.status, date)))
    /\ UNCHANGED <<invoices, idSeq, today>>

\* part_000: the catch, then revalidatePath and redirect
createInvoice_tail(outcome) ==
    IF outcome.kind = "throw"
    THEN [log |-> <<>>,
          result |-> Return(Object([message |-> "Database Error: Failed to Create Invoice."]))]
    ELSE [log |-> <<RevalidatePath(ListingPath), Redirect(ListingPath)>>,
          result |-> Throw(RedirectSignal(ListingPath))]

createInvoice_await(i) ==
    /\ i \in Pending("createInvoice", "part_000")
    /\ \E outcome \in SqlOutcomes(inv[i].stmt) :
          Settle(i, outcome, createInvoice_tail(outcome))

\* actions.ts: up to the await of the INSERT; parse throws on issues
lib_createInvoice(formData) ==
    /\ LET c == Call("createInvoice", "actions.ts", 0, formData)
           parsed == lib_CreateInvoice_safeParse(formData)
       IN  inv' = Append(inv,
                IF ~parsed.success
                THEN Finished(c, Throw(ZodError))
                ELSE LET amountInCents == Times100(parsed.data.amount)
                         date == today
                     IN  Awaiting(c, InsertStmt(parsed.data.customerId, amountInCents,
                                                parsed.data.status, date)))
    /\ UNCHANGED <<invoices, idSeq, today>>

\* actions.ts: no catch; a rejected statement propagates
lib_createInvoice_tail(outcome) ==
    IF outcome.kind = "throw"
    THEN [log |-> <<>>, result |-> Throw(outcome.value)]
    ELSE [log |-> <<RevalidatePath(ListingPath), Redirect(ListingPath)>>,
          result |-> Throw(RedirectSignal(ListingPath))]

lib_createInvoice_await(i) ==
    /\ i \in Pending("createInvoice", "actions.ts")
    /\ \E outcome \in SqlOutcomes(inv[i].stmt) :
          Settle(i, outcome, lib_createInvoice_tail(outcome))

(***************************************************************************)
(* updateInvoice                                                           *)
(***************************************************************************)
\* part_000: up to the await of the UPDATE; parse throws on issues
updateInvoice(id, formData) ==
    /\ LET c == Call("updateInvoice", "part_000", id, formData)
           parsed == UpdateInvoice_safeParse(formData)
       IN  inv' = Append(inv,
                IF ~parsed.success
                THEN Finished(c, Throw(ZodError))
                ELSE LET amountInCents == Times100(parsed.data.amount)
                     IN  Awaiting(c, UpdateStmt(parsed.data.customerId, amountInCents,
                                                parsed.data.status, id)))
    /\ UNCHANGED <<invoices, idSeq, today>>

\* revalidatePath moved in front of the statement's outcome
updateInvoice_tail_revalidatesFirst(outcome) ==
    IF outcome.kind = "throw"
    THEN [log |-> <<RevalidatePath(ListingPath)>>,
          result |-> Return(Object([message |-> "Database Error: Failed to Update Invoice."]))]
    ELSE [log |-> <<RevalidatePath(ListingPath), Redirect(ListingPath)>>,
          result |-> Throw(RedirectSignal(ListingPath))]

\* part_000: the catch, then revalidatePath and redirect
updateInvoice_tail(outcome) ==
    IF outcome.kind = "throw"
    THEN [log |-> <<>>,
          result |-> Return(Object([message |-> "Database Error: Failed to Update Invoice."]))]
    ELSE [log |-> <<RevalidatePath(ListingPath), Redirect(ListingPath)>>,
          result |-> Throw(RedirectSignal(ListingPath))]

updateInvoice_await(i) ==
    /\ i \in Pending("updateInvoice", "part_000")
    /\ \E outcome \in SqlOutcomes(inv[i].stmt) :
          Settle(i, outcome, updateInvoice_tail(outcome))

\* actions.ts: up to the await of the UPDATE
lib_updateInvoice(id, formData) ==
    /\ LET c == Call("updateInvoice", "actions.ts", id, formData)
           parsed == lib_UpdateInvoice_safeParse(formData)
       IN  inv' = Append(inv,
                IF ~parsed.success
                THEN Finished(c, Throw(ZodError))
                ELSE LET amountInCents == Times100(parsed.data.amount)
                     IN  Awaiting(c, UpdateStmt(parsed.data.customerId, amountInCents,
                                                parsed.data.status, id)))
    /\ UNCHANGED <<invoices, idSeq, today>>

\* actions.ts: no catch; a rejected statement propagates
lib_updateInvoice_tail(outcome) ==
    IF outcome.kind = "throw"
    THEN [log |-> <<>>, result |-> Throw(outcome.value)]
    ELSE [log |-> <<RevalidatePath(ListingPath), Redirect(ListingPath)>>,
          result |-> Throw(RedirectSignal(ListingPath))]

lib_updateInvoice_await(i) ==
    /\ i \in Pending("updateInvoice", "actions.ts")
    /\ \E outcome \in SqlOutcomes(inv[i].stmt) :
          Settle(i, outcome, lib_updateInvoice_tail(outcome))

(***************************************************************************)
(* deleteInvoice                                                           *)
(***************************************************************************)
\* part_000: the throw in front of the try block ends every invocation; the
\* DELETE, revalidatePath and both returns below it are never reached.
deleteInvoice(id) ==
    /\ inv' = Append(inv, Finished(Call("deleteInvoice", "part_000", id, NoForm),
                                   Throw(Error("Error", "Failed to Delete Invoice"))))
    /\ UNCHANGED <<invoices, idSeq, today>>

\* actions.ts: up to the await of the DELETE
lib_deleteInvoice(id) ==
    /\ inv' = Append(inv, Awaiting(Call("deleteInvoice", "actions.ts", id, NoForm),
                                   DeleteStmt(id)))
    /\ UNCHANGED <<invoices, idSeq, today>>

\* actions.ts: revalidatePath, then the function ends without a value
lib_deleteInvoice_tail(outcome) ==
    IF outcome.kind = "throw"
    THEN [log |-> <<>>, result |-> Throw(outcome.value)]
    ELSE [log |-> <<RevalidatePath(ListingPath)>>, result |-> Return(Undefined)]

lib_deleteInvoice_await(i) ==
    /\ i \in Pending("deleteInvoice", "actions.ts")
    /\ \E outcome \in SqlOutcomes(inv[i].stmt) :
          Settle(i, outcome, lib_deleteInvoice_tail(outcome))

(***************************************************************************)
(* authenticate                                                            *)
(***************************************************************************)
AuthError(type) == [type |-> "error", name |-> "AuthError", errtype |-> type]

AuthErrorTypes == {"CredentialsSignin", "CallbackRouteError", "AccessDenied"}

\* What the awaited signIn settles with: it returns, raises an AuthError, or
\* raises something else (a plain Error, the redirect signal).
SignInOutcomes ==
    {Return(Undefined)}
        \cup {Throw(AuthError(t)) : t \in AuthErrorTypes}
        \cup {Throw(Error("Error", "fetch failed")), Throw(RedirectSignal("/dashboard"))}

\* up to the await of signIn('credentials', formData)
authenticate(prevState, formData) ==
    /\ inv' = Append(inv,
                [Call("authenticate", "part_000", 0, formData) EXCEPT
                    !.pc = "await", !.log = <<SignIn("credentials")>>])
    /\ UNCHANGED <<invoices, idSeq, today>>

\* a catch that swallows every error
authenticate_catch_swallows(outcome) ==
    IF outcome.kind = "return" THEN Return(Undefined)
    ELSE LET error == outcome.value
         IN  IF error.name = "AuthError" /\ error.errtype = "CredentialsSignin"
             THEN Return(StringValue("Invalid credentials."))
             ELSE Return(StringValue("Something went wrong."))

\* the try/catch around signIn
authenticate_catch(outcome) ==
    IF outcome.kind = "return" THEN Return(Undefined)
    ELSE LET error == outcome.value
         IN  IF error.name = "AuthError"
             THEN CASE error.errtype = "CredentialsSignin" ->
                            Return(StringValue("Invalid credentials."))
                    [] OTHER -> Return(StringValue("Something went wrong."))
             ELSE Throw(error)

authenticate_await(i) ==
    /\ i \in Pending("authenticate", "part_000")
    /\ \E outcome \in SignInOutcomes :
          inv' = [inv EXCEPT ![i] =
                    [@ EXCEPT !.pc = "done", !.awaited = outcome,
                              !.result = authenticate_catch(outcome)]]
    /\ UNCHANGED <<invoices, idSeq, today>>

(***************************************************************************)
(* The environment                                                         *)
(***************************************************************************)
\* midnight passes
Tick ==
    /\ today < MaxDay
    /\ today' = today + 1
    /\ UNCHANGED <<invoices, idSeq, inv>>

\* the rows the table holds when the server starts, entered before day 1
SeedRows ==
    {[id |-> 1, customer_id |-> "C0", amount |-> 15795, status |-> "pending", date |-> 0],
     [id |-> 2, customer_id |-> "C0", amount |-> 20348, status |-> "paid", date |-> 0]}

Init ==
    /\ invoices = SeedRows
    /\ idSeq = Cardinality(SeedRows)
    /\ today = 1
    /\ inv = <<>>

(***************************************************************************)
(* Inputs                                                                  *)
(***************************************************************************)
Ids == {r.id : r \in SeedRows}

CustomerInputs == {Null, Str("C1"), Str("C2")}
AmountInputs ==
    {Null, Str(<<>>), Str(<<"0">>), Str(<<"-", "5">>), Str(<<"a", "b", "c">>),
     Str(<<"1", "0", ".", "5", "0">>), Str(<<"1", "0", ".", "5", "0", "5">>)}
StatusInputs == {Null, Str("draft"), Str("pending"), Str("paid")}

BaseForm ==
    [customerId |-> Str("C1"), amount |-> Str(<<"1", "0", ".", "5", "0">>),
     status |-> Str("pending")]

\* the base form with one field varied, and forms with several fields wrong
Forms ==
    {[BaseForm EXCEPT !.customerId = c] : c \in CustomerInputs}
        \cup {[BaseForm EXCEPT !.amount = a] : a \in AmountInputs}
        \cup {[BaseForm EXCEPT !.status = s] : s \in StatusInputs}
        \cup {[customerId |-> Null, amount |-> a, status |-> s] :
                a \in {Str(<<"0">>), Str(<<"1", "0", ".", "5", "0">>)},
                s \in {Str("draft"), Str("paid")}}

CoreForms ==
    {BaseForm,
     [BaseForm EXCEPT !.customerId = Str("C2"), !.status = Str("paid")],
     [BaseForm EXCEPT !.amount = Str(<<"0">>)],
     [BaseForm EXCEPT !.amount = Str(<<"1", "0", ".", "5", "0", "5">>)],
     [BaseForm EXCEPT !.status = Str("draft")]}

PrevStates == {[message |-> "", errors |-> <<>>]}

Credentials ==
    {[email |-> "user@nextmail.com", password |-> p] : p \in {"123456", "wrong"}}

(***************************************************************************)
(* Specifications                                                          *)
(***************************************************************************)
CanCall(n) == Len(inv) < n
Called == 1..Len(inv)

\* every action of both files, the clock included
Next ==
    \/ CanCall(MaxCalls) /\ \E p \in PrevStates, f \in CoreForms : createInvoice(p, f)
    \/ \E i \in Called : createInvoice_await(i)
    \/ CanCall(MaxCalls) /\ \E f \in CoreForms : lib_createInvoice(f)
    \/ \E i \in Called : lib_createInvoice_await(i)
    \/ CanCall(MaxCalls) /\ \E id \in Ids, f \in CoreForms : updateInvoice(id, f)
    \/ \E i \in Called : updateInvoice_await(i)
    \/ CanCall(MaxCalls) /\ \E id \in Ids, f \in CoreForms : lib_updateInvoice(id, f)
    \/ \E i \in Called : lib_updateInvoice_await(i)
    \/ CanCall(MaxCalls) /\ \E id \in Ids : deleteInvoice(id)
    \/ CanCall(MaxCalls) /\ \E id \in Ids : lib_deleteInvoice(id)
    \/ \E i \in Called : lib_deleteInvoice_await(i)
    \/ CanCall(MaxCalls) /\ \E p \in {""}, f \in Credentials : authenticate(p, f)
    \/ \E i \in Called : authenticate_await(i)
    \/ Tick

Spec == Init /\ [][Next]_vars

\* the three mutations of both files, interleaving
NextMutations ==
    \/ CanCall(MaxCalls) /\ \E p \in PrevStates, f \in CoreForms : createInvoice(p, f)
    \/ \E i \in Called : createInvoice_await(i)
    \/ CanCall(MaxCalls) /\ \E f \in CoreForms : lib_createInvoice(f)
    \/ \E i \in Called : lib_createInvoice_await(i)
    \/ CanCall(MaxCalls) /\ \E id \in Ids, f \in CoreForms : updateInvoice(id, f)
    \/ \E i \in Called : updateInvoice_await(i)
    \/ CanCall(MaxCalls) /\ \E id \in Ids, f \in CoreForms : lib_updateInvoice(id, f)
    \/ \E i \in Called : lib_updateInvoice_await(i)
    \/ CanCall(MaxCalls) /\ \E id \in Ids : deleteInvoice(id)
    \/ CanCall(MaxCalls) /\ \E id \in Ids : lib_deleteInvoice(id)
    \/ \E i \in Called : lib_deleteInvoice_await(i)

SpecMutations == Init /\ [][NextMutations]_vars

\* createInvoice on every form, while the clock runs
NextCreate ==
    \/ CanCall(MaxSubmissions) /\ \E p \in PrevStates, f \in Forms : createInvoice(p, f)
    \/ \E i \in Called : createInvoice_await(i)
    \/ CanCall(MaxSubmissions) /\ \E f \in Forms : lib_createInvoice(f)
    \/ \E i \in Called : lib_createInvoice_await(i)
    \/ Tick

SpecCreate == Init /\ [][NextCreate]_vars

\* updateInvoice on every form, while the clock runs
NextUpdate ==
    \/ CanCall(MaxSubmissions) /\ \E id \in Ids, f \in Forms : updateInvoice(id, f)
    \/ \E i \in Called : updateInvoice_await(i)
    \/ CanCall(MaxSubmissions) /\ \E id \in Ids, f \in Forms : lib_updateInvoice(id, f)
    \/ \E i \in Called : lib_updateInvoice_await(i)
    \/ Tick

SpecUpdate == Init /\ [][NextUpdate]_vars

\* authenticate alone
NextAuth ==
    \/ CanCall(MaxCalls) /\ \E p \in {""}, f \in Credentials : authenticate(p, f)
    \/ \E i \in Called : authenticate_await(i)

SpecAuth == Init /\ [][NextAuth]_vars

(***************************************************************************)
(* Properties                                                              *)
(***************************************************************************)
Done(fn, files) ==
    {i \in Called : inv[i].fn = fn /\ inv[i].file \in files /\ inv[i].pc = "done"}

BothFiles == {"part_000", "actions.ts"}
Mutations == {"createInvoice", "updateInvoice", "deleteInvoice"}

\* how many times an invocation made the call `name`
CallCount(r, name) == Cardinality({k \in 1..Len(r.log) : r.log[k].call = name})

RedirectedToListing(r) == r.result = Throw(RedirectSignal(ListingPath))

\* The fields of a submission the data model refuses: no customer, an amount
\* that is no number or is not above zero, a status that is not pending or paid.
Offending(formData) ==
    {f \in {"customerId"} : formData.customerId = Null}
        \cup {f \in {"amount"} : LET n == CoerceNumber(formData.amount)
                                 IN  n.nan \/ n.v <= 0}
        \cup {f \in {"status"} : \/ formData.status = Null
                                 \/ formData.status.s \notin {"pending", "paid"}}

\* The same for actions.ts, whose schema sets no lower limit on the amount.
lib_Offending(formData) ==
    {f \in {"customerId"} : formData.customerId = Null}
        \cup {f \in {"amount"} : CoerceNumber(formData.amount).nan}
        \cup {f \in {"status"} : \/ formData.status = Null
                                 \/ formData.status.s \notin {"pending", "paid"}}

OffendingIn(file, formData) ==
    IF file = "part_000" THEN Offending(formData) ELSE lib_Offending(formData)

\* invocation i is suspended before the step and has ended after it
Settles(i) == i \in Called /\ inv[i].pc = "await" /\ inv'[i].pc = "done"
\* the step is a call: a new invocation starts
Calls == Len(inv') = Len(inv) + 1
Newest == inv'[Len(inv')]

TenFifty == Str(<<"1", "0", ".", "5", "0">>)

\* C1: a createInvoice(prevState, formData) submission with an offending field
\* (an amount <= 0, a status outside pending/paid, ...) returns errors with an
\* entry for exactly the offending fields and the 'Missing Fields' message, and
\* issues no statement, no cache invalidation and no redirect; the table is as
\* it was.
C1_ValidationFailureReturnsFieldErrors ==
    [][(Calls /\ Newest.fn = "createInvoice" /\ Newest.file = "part_000"
              /\ Offending(Newest.formData) # {})
        => /\ Newest.pc = "done"
           /\ Newest.result.kind = "return"
           /\ Newest.result.value.type = "object"
           /\ DOMAIN Newest.result.value.props = {"errors", "message"}
           /\ Newest.result.value.props.message = "Missing Fields. Failed to Create Invoice."
           /\ DOMAIN Newest.result.value.props.errors = Offending(Newest.formData)
           /\ \A f \in Offending(Newest.formData) :
                 Len(Newest.result.value.props.errors[f]) > 0
           /\ Newest.log = <<>>
           /\ Newest.stmt = NoStmt
           /\ invoices' = invoices]_vars

C1_Witness ==
    \E i \in Done("createInvoice", {"part_000"}) :
        /\ {"amount", "status"} \subseteq Offending(inv[i].formData)
        /\ inv[i].result.kind = "return"
        /\ {"amount", "status"} \subseteq DOMAIN inv[i].result.value.props.errors

\* C2: when the INSERT of a createInvoice succeeds, the table gains exactly one
\* row, whose amount is the submitted decimal amount in whole minor units
\* ("10.50" gives 1050) and whose date is the day the action computed; the
\* invocation then called revalidatePath, then redirect, and ends with the
\* redirect signal thrown to the caller.
C2_CreateInsertsThenRevalidatesThenRedirects ==
    [][\A i \in Called :
        (Settles(i) /\ inv[i].fn = "createInvoice" /\ inv'[i].awaited.kind = "return")
        => /\ \E row \in invoices' :
                /\ row \notin invoices
                /\ invoices' = invoices \cup {row}
                /\ \A r \in invoices : r.id # row.id
                /\ row.amount * Scale = CoerceNumber(inv[i].formData.amount).v * 100
                /\ (inv[i].formData.amount = TenFifty => row.amount = 1050)
                /\ row.customer_id = inv[i].formData.customerId.s
                /\ row.status = inv[i].formData.status.s
                /\ row.date = inv[i].day
           /\ inv'[i].log = <<Sql("INSERT"), RevalidatePath(ListingPath),
                               Redirect(ListingPath)>>
           /\ RedirectedToListing(inv'[i])]_vars

C2_Witness ==
    \E i \in Done("createInvoice", {"part_000"}) :
        /\ inv[i].formData.amount = TenFifty
        /\ RedirectedToListing(inv[i])
        /\ \E row \in invoices \ SeedRows : row.amount = 1050 /\ row.date = inv[i].day

\* C3 (as claimed): whenever the INSERT of a createInvoice fails, the invocation
\* ends by returning exactly {message: 'Database Error: Failed to Create
\* Invoice.'}, having issued that one statement and neither invalidated the
\* cache nor redirected, and the table is as it was.
C3_InsertFailureReturnsMessage ==
    [][\A i \in Called :
        (Settles(i) /\ inv[i].fn = "createInvoice" /\ inv'[i].awaited.kind = "throw")
        => /\ inv'[i].result =
                Return(Object([message |-> "Database Error: Failed to Create Invoice."]))
           /\ inv'[i].log = <<Sql("INSERT")>>
           /\ invoices' = invoices]_vars

\* The same restricted to createInvoice(prevState, formData) of part_000, the
\* revision with the try/catch around the INSERT.
InsertFailureReturnsMessage_part_000 ==
    [][\A i \in Called :
        (/\ Settles(i) /\ inv[i].fn = "createInvoice" /\ inv[i].file = "part_000"
         /\ inv'[i].awaited.kind = "throw")
        => /\ inv'[i].result =
                Return(Object([message |-> "Database Error: Failed to Create Invoice."]))
           /\ inv'[i].log = <<Sql("INSERT")>>
           /\ invoices' = invoices]_vars

\* C4: authenticate returns 'Invalid credentials.' exactly when signIn raised an
\* AuthError of type CredentialsSignin, 'Something went wrong.' for every other
\* AuthError, re-raises every other error, and returns nothing when signIn
\* returned.
C4_AuthenticateClassifiesErrors ==
    \A i \in Done("authenticate", {"part_000"}) :
        LET a == inv[i].awaited
            isAuthError == a.kind = "throw" /\ a.value.name = "AuthError"
        IN  /\ (inv[i].result = Return(StringValue("Invalid credentials.")))
                <=> (isAuthError /\ a.value.errtype = "CredentialsSignin")
            /\ (isAuthError /\ a.value.errtype # "CredentialsSignin")
                => inv[i].result = Return(StringValue("Something went wrong."))
            /\ (a.kind = "throw" /\ ~isAuthError) => inv[i].result = Throw(a.value)
            /\ a.kind = "return" => inv[i].result = Return(Undefined)

C4_Witness ==
    /\ \E i \in Done("authenticate", {"part_000"}) :
          /\ inv[i].awaited = Throw(AuthError("CredentialsSignin"))
          /\ inv[i].result = Return(StringValue("Invalid credentials."))
    /\ \E i \in Done("authenticate", {"part_000"}) :
          /\ inv[i].awaited.kind = "throw"
          /\ inv[i].result.kind = "throw"

\* the table after the step differs from the table before it at most in the
\* customer, amount and status of the row whose identifier is id
OnlyMutableFieldsOf(id) ==
    /\ \A r \in invoices :
          \E r2 \in invoices' :
              /\ r2.id = r.id
              /\ r2.date = r.date
              /\ r.id # id => r2 = r
    /\ \A r2 \in invoices' : \E r \in invoices : r.id = r2.id
    /\ Cardinality(invoices') = Cardinality(invoices)

\* C5: every step of an updateInvoice(id, formData), the call as well as the
\* end of its statement, whatever the outcome, keeps every row's identifier and
\* date, changes at most customer, amount and status of the row id, and leaves
\* the other rows as they were.
C5_UpdateKeepsIdAndDate ==
    [][/\ (Calls /\ Newest.fn = "updateInvoice") => OnlyMutableFieldsOf(Newest.id)
       /\ \A i \in Called :
            (Settles(i) /\ inv[i].fn = "updateInvoice") => OnlyMutableFieldsOf(inv[i].id)]_vars

C5_Witness ==
    \E i \in Done("updateInvoice", BothFiles) :
        /\ inv[i].rowCount = 1
        /\ \E r \in invoices : \E seed \in SeedRows :
              /\ r.id = inv[i].id /\ seed.id = r.id
              /\ r.customer_id = inv[i].formData.customerId.s
              /\ r.customer_id # seed.customer_id
              /\ r.amount # seed.amount
              /\ r.date = seed.date
        /\ \E r \in invoices : r.id # inv[i].id /\ r \in SeedRows

\* C6: when the DELETE of a deleteInvoice(id) succeeds, the row id is gone,
\* every other row is as it was, and no row appeared.
C6_DeleteRemovesExactlyTheRow ==
    [][\A i \in Called :
        (Settles(i) /\ inv[i].fn = "deleteInvoice" /\ inv'[i].awaited.kind = "return")
        => /\ \A r \in invoices' : r.id # inv[i].id
           /\ \A r \in invoices : r.id # inv[i].id => r \in invoices'
           /\ invoices' \subseteq invoices]_vars

C6_Witness ==
    \E i \in Done("deleteInvoice", BothFiles) :
        /\ inv[i].awaited.kind = "return"
        /\ inv[i].rowCount = 1
        /\ \A r \in invoices : r.id # inv[i].id
        /\ \E r \in invoices : r \in SeedRows

\* C7 (as claimed): every deleteInvoice ends by returning {message}: 'Deleted
\* Invoice.' after a DELETE that succeeded and one revalidatePath, without a
\* redirect, or 'Database Error: Failed to Delete Invoice.' after one that
\* failed; none ends by raising.
C7_DeleteAlwaysReturnsMessage ==
    \A i \in Done("deleteInvoice", BothFiles) :
        /\ inv[i].result.kind = "return"
        /\ \/ /\ inv[i].awaited.kind = "return"
              /\ inv[i].result.value = Object([message |-> "Deleted Invoice."])
              /\ inv[i].log = <<Sql("DELETE"), RevalidatePath(ListingPath)>>
           \/ /\ inv[i].awaited.kind = "throw"
              /\ inv[i].result.value =
                    Object([message |-> "Database Error: Failed to Delete Invoice."])

\* C8: an updateInvoice submission that its schema refuses ends in the call
\* itself with the ZodError thrown, no statement issued, no revalidatePath, no
\* redirect, and the table as it was.
C8_UpdateValidationFailureThrows ==
    [][(Calls /\ Newest.fn = "updateInvoice"
              /\ OffendingIn(Newest.file, Newest.formData) # {})
        => /\ Newest.pc = "done"
           /\ Newest.result = Throw(ZodError)
           /\ Newest.log = <<>>
           /\ Newest.stmt = NoStmt
           /\ invoices' = invoices]_vars

C8_Witness ==
    \E i \in Done("updateInvoice", {"part_000"}) :
        /\ "amount" \in Offending(inv[i].formData)
        /\ inv[i].result = Throw(ZodError)
        /\ inv[i].log = <<>>
        /\ invoices = SeedRows

\* C9: a create, update or delete invocation has called revalidatePath exactly
\* once if its statement has completed successfully, after issuing it, and not
\* at all otherwise (while the statement is pending, after it failed, after
\* validation failed).
C9_RevalidateOnlyAfterSuccess ==
    \A i \in Called :
        inv[i].fn \in Mutations
        => LET r == inv[i]
               succeeded == r.pc = "done" /\ r.awaited.kind = "return"
           IN  /\ CallCount(r, "revalidatePath") = (IF succeeded THEN 1 ELSE 0)
               /\ succeeded => /\ Len(r.log) >= 2
                               /\ r.log[1].call = "sql"
                               /\ r.log[2] = RevalidatePath(ListingPath)

C9_Witness ==
    /\ \E i \in Done("updateInvoice", {"part_000"}) :
          inv[i].awaited.kind = "return" /\ CallCount(inv[i], "revalidatePath") = 1
    /\ \E i \in Done("createInvoice", {"part_000"}) :
          inv[i].awaited.kind = "throw" /\ CallCount(inv[i], "revalidatePath") = 0

\* C10: an updateInvoice whose UPDATE succeeds when no row has its identifier
\* changes no row and creates none, and still calls revalidatePath and redirect
\* and ends with the redirect signal; no invocation issues more than one
\* statement.
C10_UpdateAfterDeleteIsUndetected ==
    [][/\ \A i \in Called :
            (/\ Settles(i) /\ inv[i].fn = "updateInvoice"
             /\ inv'[i].awaited.kind = "return"
             /\ \A r \in invoices : r.id # inv[i].id)
            => /\ invoices' = invoices
               /\ inv'[i].rowCount = 0
               /\ inv'[i].log = <<Sql("UPDATE"), RevalidatePath(ListingPath),
                                   Redirect(ListingPath)>>
               /\ RedirectedToListing(inv'[i])
       /\ \A i \in 1..Len(inv') : CallCount(inv'[i], "sql") <= 1]_vars

\* an update called first, a delete of the same row called and completed while
\* the update was suspended, and the update then completed as a success
C10_Witness ==
    \E i \in Done("updateInvoice", BothFiles) :
        \E j \in Done("deleteInvoice", BothFiles) :
            /\ i < j
            /\ inv[j].id = inv[i].id
            /\ inv[j].rowCount = 1
            /\ inv[i].rowCount = 0
            /\ RedirectedToListing(inv[i])
            /\ \A r \in invoices : r.id # inv[i].id

====
